---------------------------- MODULE Spec2Model ----------------------------
(***************************************************************************)
(* Verification model of the kudo control plane.                           *)
(*                                                                         *)
(*   Node Agent   src/node-agent/src/main.rs                               *)
(*       the gRPC client task (connect, register, status stream), the      *)
(*       main function that joins the client and the server task.          *)
(*   Scheduler    src/scheduler/src/event/handlers/instance_stop.rs        *)
(*       InstanceStopHandler::handle, run by several concurrent tasks on   *)
(*       one Arc<Mutex<Orchestrator>>.                                     *)
(*                                                                         *)
(* The Node Agent and the Scheduler are two programs: each has its own     *)
(* specification (AgentSpec, StopSpec) over its own variables; the other   *)
(* program's variables stay at their initial values.                       *)
(***************************************************************************)
EXTENDS Integers, Sequences, FiniteSets, TLC

VARIABLES
    \* ---- Node Agent: create_grpc_client (main.rs 184-270) ----
    pc,             \* position of the client task
    connection,     \* `connection.is_some()`
    registration,   \* `registration.is_some()`
    send_node_resources_to_scheduler,  \* its `.is_some()`
    attempts,       \* `attempts: u16`
    connectCalls,   \* calls of connect_to_scheduler begun so far
    registerCalls,  \* calls of register_to_scheduler begun so far
    statusCalls,    \* calls of send_node_status_to_scheduler begun so far
    sleeps,         \* calls of sleep(1 s) made so far
    reports,        \* NodeStatus values yielded by the stream of the current status call
    reported,       \* some NodeStatus was yielded by some status call
    \* ---- Node Agent: main (main.rs 272-302) ----
    mainPc,         \* position of main
    server,         \* the task spawned by create_grpc_server
    \* ---- Scheduler: InstanceStopHandler::handle (instance_stop.rs 11-32) ----
    hpc,            \* position of each handler task
    event,          \* the InstanceStop event each handler was given (its id)
    rxAlive,        \* the oneshot::Receiver of each event is not dropped
    guard,          \* the handler holding the MutexGuard<Orchestrator>, 0 if none
    result,         \* what Orchestrator::stop_instance returned to each handler
    replies,        \* the values sent on each event's oneshot channel
    \* ---- Node Agent: InstanceServiceController (main.rs 33-92) ----
    req,            \* the RPC each request slot received: "none", "create", "signal"
    rpc,            \* what the RPC returned to its caller
    tpc,            \* position of the task the RPC spawned
    wmGuard,        \* the task holding the MutexGuard<WorkloadManager>, 0 if none
    stalled,        \* the tasks whose WorkloadManager call never completes
    wmResult,       \* what WorkloadManager::create / signal returned to each task
    \* ---- Controller: external_api::instance::model (model.rs) ----
    created,        \* the Instance values built so far, each with its Workload
    instance,       \* the Instance built last, as update_instance has left it
    lastReport,     \* the last InstanceStatus update_instance applied to it, if any
    prevUsage,      \* its resource.usage before that last update_instance
    wire,           \* the proto::scheduler::Instance into() produced from it, if any
    \* ---- Node Agent: send_node_status_to_scheduler's stream (main.rs 139-175) ----
    nodeSystem,     \* what NodeSystem measures now: totals and usage
    streaming,      \* a status stream is being polled
    limits,         \* cpu_limit, memory_limit, disk_limit of the stream, as read so far
    usage,          \* cpu_usage, memory_usage, disk_usage of the tick, as read so far
    ticks,          \* interval ticks the stream has waited for
    sent,           \* the NodeStatus values the stream has yielded
    \* ---- Controller: external_api::instance::controller (controller.rs) ----
    op,             \* the HTTP request being served: handler, namespace, workload_id
    cpc,            \* position of the handler
    calls,          \* the service calls the handler has made, with their results
    response        \* the HttpResponse the handler returned, if any

agentVars == <<pc, connection, registration, send_node_resources_to_scheduler, attempts, connectCalls,
               registerCalls, statusCalls, sleeps, reports, reported, mainPc, server>>
stopVars == <<hpc, event, rxAlive, guard, result, replies>>
rpcVars == <<req, rpc, tpc, wmGuard, stalled, wmResult>>
instVars == <<created, instance, lastReport, prevUsage, wire>>
streamVars == <<nodeSystem, streaming, limits, usage, ticks, sent>>
ctrlVars == <<op, cpc, calls, response>>
vars == <<agentVars, stopVars, rpcVars, instVars, streamVars, ctrlVars>>

\* What the steps of one component leave alone.
nonAgentVars == <<stopVars, rpcVars, instVars, streamVars, ctrlVars>>
nonStopVars == <<agentVars, rpcVars, instVars, streamVars, ctrlVars>>
nonRpcVars == <<agentVars, stopVars, instVars, streamVars, ctrlVars>>
nonInstVars == <<agentVars, stopVars, rpcVars, streamVars, ctrlVars>>
nonStreamVars == <<agentVars, stopVars, rpcVars, instVars, ctrlVars>>
nonCtrlVars == <<agentVars, stopVars, rpcVars, instVars, streamVars>>

(***************************************************************************)
(* Bounds of the model and constants of the program.                       *)
(***************************************************************************)
\* main.rs 29: const NUMBER_OF_CONNECTION_ATTEMPTS: u16 = 10
NUMBER_OF_CONNECTION_ATTEMPTS == 10
\* NodeStatus reports followed on one status stream
MaxReports == 2
\* concurrent InstanceStopHandler::handle tasks
NumHandlers == 2
\* Create and Signal requests the instance-control server receives
NumRequests == 3
\* Instance values built from workloads
MaxInstances == 2

U16 == 65536

Handlers == 1..NumHandlers
Requests == 1..NumRequests

(***************************************************************************)
(* NODE AGENT                                                              *)
(***************************************************************************)

\* main.rs 193, 225, 253: `if attempts <= NUMBER_OF_CONNECTION_ATTEMPTS`, mutated to
\* a guard that counts the initial call as an attempt.
MayRetryCountsInitial(a) == a + 1 < NUMBER_OF_CONNECTION_ATTEMPTS

\* main.rs 193, 225, 253: `if attempts <= NUMBER_OF_CONNECTION_ATTEMPTS`
MayRetry(a) == a <= NUMBER_OF_CONNECTION_ATTEMPTS

\* main.rs 192, 224, 252: `while x.is_none()`, mutated to a loop that never runs.
LoopContinuesNever(isSome) == FALSE

\* main.rs 192, 224, 252: `while x.is_none()`
LoopContinues(isSome) == ~isSome

\* main.rs 199, 231, 264: `attempts += 1`, mutated to a counter that never moves.
IncrStuck(a) == a

\* main.rs 199, 231, 264: `attempts += 1` on a u16
Incr(a) == (a + 1) % U16

AgentInit ==
    /\ pc = "connect"
    /\ connection = FALSE
    /\ registration = FALSE
    /\ send_node_resources_to_scheduler = FALSE
    /\ attempts = 0
    /\ connectCalls = 0
    /\ registerCalls = 0
    /\ statusCalls = 0
    /\ sleeps = 0
    /\ reports = 0
    /\ reported = FALSE
    /\ mainPc = "await_client"
    /\ server = "listening"

\* main.rs 188-189: the first connect_to_scheduler call begins.
ConnectCall ==
    /\ pc = "connect"
    /\ connectCalls' = connectCalls + 1
    /\ pc' = "connect_call"
    /\ UNCHANGED <<connection, registration, send_node_resources_to_scheduler, attempts,
                   registerCalls, statusCalls, sleeps, reports, reported, mainPc, server>>
    /\ UNCHANGED nonAgentVars

\* main.rs 189-191: the first connect_to_scheduler call returns; `ok` is the
\* Scheduler's answer; `let mut attempts: u16 = 0`.
ConnectReturn(ok) ==
    /\ pc = "connect_call"
    /\ connection' = ok
    /\ attempts' = 0
    /\ pc' = "connect_loop"
    /\ UNCHANGED <<registration, send_node_resources_to_scheduler, connectCalls, registerCalls,
                   statusCalls, sleeps, reports, reported, mainPc, server>>
    /\ UNCHANGED nonAgentVars

\* main.rs 192-194: one iteration of the connect loop that retries begins: the loop and
\* retry guards pass and the task sleeps (std::thread::sleep, 1 s).
ConnectSleep ==
    /\ pc = "connect_loop"
    /\ LoopContinues(connection)
    /\ MayRetry(attempts)
    /\ sleeps' = sleeps + 1
    /\ pc' = "connect_sleep"
    /\ UNCHANGED <<connection, registration, send_node_resources_to_scheduler, attempts, connectCalls,
                   registerCalls, statusCalls, reports, reported, mainPc, server>>
    /\ UNCHANGED nonAgentVars

\* main.rs 194-197: the sleep returns and a new connect_to_scheduler call begins on
\* the same address.
ConnectRetry ==
    /\ pc = "connect_sleep"
    /\ connectCalls' = connectCalls + 1
    /\ pc' = "connect_retry_call"
    /\ UNCHANGED <<connection, registration, send_node_resources_to_scheduler, attempts, registerCalls,
                   statusCalls, sleeps, reports, reported, mainPc, server>>
    /\ UNCHANGED nonAgentVars

\* main.rs 197-199: the retried connect call returns, `attempts += 1`.
ConnectRetryReturn(ok) ==
    /\ pc = "connect_retry_call"
    /\ connection' = ok
    /\ attempts' = Incr(attempts)
    /\ pc' = "connect_loop"
    /\ UNCHANGED <<registration, send_node_resources_to_scheduler, connectCalls, registerCalls,
                   statusCalls, sleeps, reports, reported, mainPc, server>>
    /\ UNCHANGED nonAgentVars

\* main.rs 200-202: panic!("Error, unable to connect to the Scheduler server.")
ConnectPanic ==
    /\ pc = "connect_loop"
    /\ LoopContinues(connection)
    /\ ~MayRetry(attempts)
    /\ pc' = "panic_connect"
    /\ UNCHANGED <<connection, registration, send_node_resources_to_scheduler, attempts, connectCalls,
                   registerCalls, statusCalls, sleeps, reports, reported, mainPc, server>>
    /\ UNCHANGED nonAgentVars

\* main.rs 203-211: the connect loop ends, `connection.unwrap()`.
Connected ==
    /\ pc = "connect_loop"
    /\ ~LoopContinues(connection)
    /\ pc' = "register"
    /\ UNCHANGED <<connection, registration, send_node_resources_to_scheduler, attempts, connectCalls,
                   registerCalls, statusCalls, sleeps, reports, reported, mainPc, server>>
    /\ UNCHANGED nonAgentVars

\* main.rs 211-212: the first register_to_scheduler call begins.
RegisterCall ==
    /\ pc = "register"
    /\ registerCalls' = registerCalls + 1
    /\ pc' = "register_call"
    /\ UNCHANGED <<connection, registration, send_node_resources_to_scheduler, attempts,
                   connectCalls, statusCalls, sleeps, reports, reported, mainPc, server>>
    /\ UNCHANGED nonAgentVars

\* main.rs 212-223, mutated: `attempts = 0` is missing before the register loop.
RegisterReturnKeepsAttempts(ok) ==
    /\ pc = "register_call"
    /\ registration' = ok
    /\ pc' = "register_loop"
    /\ UNCHANGED <<connection, send_node_resources_to_scheduler, attempts, connectCalls,
                   registerCalls, statusCalls, sleeps, reports, reported, mainPc, server>>
    /\ UNCHANGED nonAgentVars

\* main.rs 212-223: the first register_to_scheduler call returns, `attempts = 0`.
RegisterReturn(ok) ==
    /\ pc = "register_call"
    /\ registration' = ok
    /\ attempts' = 0
    /\ pc' = "register_loop"
    /\ UNCHANGED <<connection, send_node_resources_to_scheduler, connectCalls, registerCalls,
                   statusCalls, sleeps, reports, reported, mainPc, server>>
    /\ UNCHANGED nonAgentVars

\* main.rs 224-226: one iteration of the register loop that retries begins: the loop and
\* retry guards pass and the task sleeps (std::thread::sleep, 1 s).
RegisterSleep ==
    /\ pc = "register_loop"
    /\ LoopContinues(registration)
    /\ MayRetry(attempts)
    /\ sleeps' = sleeps + 1
    /\ pc' = "register_sleep"
    /\ UNCHANGED <<connection, registration, send_node_resources_to_scheduler, attempts, connectCalls,
                   registerCalls, statusCalls, reports, reported, mainPc, server>>
    /\ UNCHANGED nonAgentVars

\* main.rs 226-229: the sleep returns and a new register_to_scheduler call begins on
\* the same client.
RegisterRetry ==
    /\ pc = "register_sleep"
    /\ registerCalls' = registerCalls + 1
    /\ pc' = "register_retry_call"
    /\ UNCHANGED <<connection, registration, send_node_resources_to_scheduler, attempts, connectCalls,
                   statusCalls, sleeps, reports, reported, mainPc, server>>
    /\ UNCHANGED nonAgentVars

\* main.rs 229-231: the retried register call returns, `attempts += 1`.
RegisterRetryReturn(ok) ==
    /\ pc = "register_retry_call"
    /\ registration' = ok
    /\ attempts' = Incr(attempts)
    /\ pc' = "register_loop"
    /\ UNCHANGED <<connection, send_node_resources_to_scheduler, connectCalls, registerCalls,
                   statusCalls, sleeps, reports, reported, mainPc, server>>
    /\ UNCHANGED nonAgentVars

\* main.rs 232-234: panic!("Error, unable to register to the Scheduler.")
RegisterPanic ==
    /\ pc = "register_loop"
    /\ LoopContinues(registration)
    /\ ~MayRetry(attempts)
    /\ pc' = "panic_register"
    /\ UNCHANGED <<connection, registration, send_node_resources_to_scheduler, attempts, connectCalls,
                   registerCalls, statusCalls, sleeps, reports, reported, mainPc, server>>
    /\ UNCHANGED nonAgentVars

\* main.rs 235-242: the register loop ends, NodeSystem::new().
Registered ==
    /\ pc = "register_loop"
    /\ ~LoopContinues(registration)
    /\ pc' = "status"
    /\ UNCHANGED <<connection, registration, send_node_resources_to_scheduler, attempts, connectCalls,
                   registerCalls, statusCalls, sleeps, reports, reported, mainPc, server>>
    /\ UNCHANGED nonAgentVars

\* main.rs 244-249 and 134-177: the first send_node_status_to_scheduler call starts:
\* client.status(stream) is in flight with a fresh stream.
StatusCall ==
    /\ pc = "status"
    /\ statusCalls' = statusCalls + 1
    /\ reports' = 0
    /\ pc' = "status_call"
    /\ UNCHANGED <<connection, registration, send_node_resources_to_scheduler, attempts, connectCalls,
                   registerCalls, sleeps, reported, mainPc, server>>
    /\ UNCHANGED nonAgentVars

\* main.rs 146-174: one turn of the stream's loop while a status call is in flight:
\* tick, sample, yield one NodeStatus.
ReportTick ==
    /\ pc \in {"status_call", "status_retry_call"}
    /\ reports < MaxReports
    /\ reports' = reports + 1
    /\ reported' = TRUE
    /\ UNCHANGED <<pc, connection, registration, send_node_resources_to_scheduler, attempts, connectCalls,
                   registerCalls, statusCalls, sleeps, mainPc, server>>
    /\ UNCHANGED nonAgentVars

\* main.rs 177, 249-251: the first status call returns (`.ok()`), `attempts = 0`.
StatusReturn(ok) ==
    /\ pc = "status_call"
    /\ send_node_resources_to_scheduler' = ok
    /\ attempts' = 0
    /\ pc' = "status_loop"
    /\ UNCHANGED <<connection, registration, connectCalls, registerCalls, statusCalls,
                   sleeps, reports, reported, mainPc, server>>
    /\ UNCHANGED nonAgentVars

\* main.rs 254-262, mutated: the retry opens a new connection before the status call.
StatusRetryReconnects ==
    /\ pc = "status_sleep"
    /\ connectCalls' = connectCalls + 1
    /\ statusCalls' = statusCalls + 1
    /\ reports' = 0
    /\ pc' = "status_retry_call"
    /\ UNCHANGED <<connection, registration, send_node_resources_to_scheduler, attempts,
                   registerCalls, sleeps, reported, mainPc, server>>
    /\ UNCHANGED nonAgentVars

\* main.rs 252-254: one iteration of the status loop that retries begins: the loop and
\* retry guards pass and the task sleeps (std::thread::sleep, 1 s).
StatusSleep ==
    /\ pc = "status_loop"
    /\ LoopContinues(send_node_resources_to_scheduler)
    /\ MayRetry(attempts)
    /\ sleeps' = sleeps + 1
    /\ pc' = "status_sleep"
    /\ UNCHANGED <<connection, registration, send_node_resources_to_scheduler, attempts, connectCalls,
                   registerCalls, statusCalls, reports, reported, mainPc, server>>
    /\ UNCHANGED nonAgentVars

\* main.rs 254-262: the sleep returns and a new send_node_status_to_scheduler call begins on
\* the same client.
StatusRetry ==
    /\ pc = "status_sleep"
    /\ statusCalls' = statusCalls + 1
    /\ reports' = 0
    /\ pc' = "status_retry_call"
    /\ UNCHANGED <<connection, registration, send_node_resources_to_scheduler, attempts, connectCalls,
                   registerCalls, sleeps, reported, mainPc, server>>
    /\ UNCHANGED nonAgentVars

\* main.rs 257-264: the retried status call returns, `attempts += 1`.
StatusRetryReturn(ok) ==
    /\ pc = "status_retry_call"
    /\ send_node_resources_to_scheduler' = ok
    /\ attempts' = Incr(attempts)
    /\ pc' = "status_loop"
    /\ UNCHANGED <<connection, registration, connectCalls, registerCalls, statusCalls,
                   sleeps, reports, reported, mainPc, server>>
    /\ UNCHANGED nonAgentVars

\* main.rs 265-267: panic!("Error, unable to send node status to the Scheduler.")
StatusPanic ==
    /\ pc = "status_loop"
    /\ LoopContinues(send_node_resources_to_scheduler)
    /\ ~MayRetry(attempts)
    /\ pc' = "panic_status"
    /\ UNCHANGED <<connection, registration, send_node_resources_to_scheduler, attempts, connectCalls,
                   registerCalls, statusCalls, sleeps, reports, reported, mainPc, server>>
    /\ UNCHANGED nonAgentVars

\* main.rs 268-269: the status loop ends and the client task returns.
StatusDone ==
    /\ pc = "status_loop"
    /\ ~LoopContinues(send_node_resources_to_scheduler)
    /\ pc' = "done"
    /\ UNCHANGED <<connection, registration, send_node_resources_to_scheduler, attempts, connectCalls,
                   registerCalls, statusCalls, sleeps, reports, reported, mainPc, server>>
    /\ UNCHANGED nonAgentVars

Fatal == pc \in {"panic_connect", "panic_register", "panic_status"}

\* main.rs 296, mutated: the JoinError of the client task is dropped (`.await.ok()`).
MainJoinClientIgnoresPanic ==
    /\ mainPc = "await_client"
    /\ pc = "done" \/ Fatal
    /\ mainPc' = "await_server"
    /\ UNCHANGED <<pc, connection, registration, send_node_resources_to_scheduler, attempts, connectCalls,
                   registerCalls, statusCalls, sleeps, reports, reported, server>>
    /\ UNCHANGED nonAgentVars

\* main.rs 296: `client_handler.await?`: a panicked client task is a JoinError, main
\* returns it and the runtime (with the server task) is dropped.
MainJoinClient ==
    /\ mainPc = "await_client"
    /\ pc = "done" \/ Fatal
    /\ IF Fatal
         THEN /\ mainPc' = "exit_err"
              /\ server' = IF server = "listening" THEN "stopped" ELSE server
         ELSE /\ mainPc' = "await_server"
              /\ UNCHANGED server
    /\ UNCHANGED <<pc, connection, registration, send_node_resources_to_scheduler, attempts, connectCalls,
                   registerCalls, statusCalls, sleeps, reports, reported>>
    /\ UNCHANGED nonAgentVars

\* main.rs 104-110: `serve(addr).await.unwrap()` fails (the address cannot be bound,
\* the transport fails): the server task panics.
ServerFails ==
    /\ server = "listening"
    /\ mainPc # "exit_err"
    /\ server' = "panicked"
    /\ UNCHANGED <<pc, connection, registration, send_node_resources_to_scheduler, attempts, connectCalls,
                   registerCalls, statusCalls, sleeps, reports, reported, mainPc>>
    /\ UNCHANGED nonAgentVars

\* main.rs 297: `server_handler.await?`
MainJoinServer ==
    /\ mainPc = "await_server"
    /\ server = "panicked"
    /\ mainPc' = "exit_err"
    /\ UNCHANGED <<pc, connection, registration, send_node_resources_to_scheduler, attempts, connectCalls,
                   registerCalls, statusCalls, sleeps, reports, reported, server>>
    /\ UNCHANGED nonAgentVars

\* The steps of create_grpc_client that do not wait for the Scheduler's stream.
ClientStartup ==
    \/ ConnectCall
    \/ \E ok \in BOOLEAN : ConnectReturn(ok)
    \/ ConnectSleep
    \/ ConnectRetry
    \/ \E ok \in BOOLEAN : ConnectRetryReturn(ok)
    \/ ConnectPanic
    \/ Connected
    \/ RegisterCall
    \/ \E ok \in BOOLEAN : RegisterReturn(ok)
    \/ RegisterSleep
    \/ RegisterRetry
    \/ \E ok \in BOOLEAN : RegisterRetryReturn(ok)
    \/ RegisterPanic
    \/ Registered
    \/ StatusCall
    \/ StatusSleep
    \/ StatusRetry
    \/ StatusPanic
    \/ StatusDone

\* The steps of create_grpc_client, the return of its status calls included.
ClientStep ==
    \/ ClientStartup
    \/ \E ok \in BOOLEAN : StatusReturn(ok)
    \/ \E ok \in BOOLEAN : StatusRetryReturn(ok)

AgentNext ==
    \/ ConnectCall
    \/ \E ok \in BOOLEAN : ConnectReturn(ok)
    \/ ConnectSleep
    \/ ConnectRetry
    \/ \E ok \in BOOLEAN : ConnectRetryReturn(ok)
    \/ ConnectPanic
    \/ Connected
    \/ RegisterCall
    \/ \E ok \in BOOLEAN : RegisterReturn(ok)
    \/ RegisterSleep
    \/ RegisterRetry
    \/ \E ok \in BOOLEAN : RegisterRetryReturn(ok)
    \/ RegisterPanic
    \/ Registered
    \/ StatusCall
    \/ ReportTick
    \/ \E ok \in BOOLEAN : StatusReturn(ok)
    \/ StatusSleep
    \/ StatusRetry
    \/ \E ok \in BOOLEAN : StatusRetryReturn(ok)
    \/ StatusPanic
    \/ StatusDone
    \/ MainJoinClient
    \/ ServerFails
    \/ MainJoinServer

(***************************************************************************)
(* SCHEDULER: InstanceStopHandler::handle                                  *)
(***************************************************************************)

\* lib.rs 61, 70-73: the InstanceIdentifier carried by an InstanceStop event.
InstanceIds == {"i1", "i2"}

\* The ids the Orchestrator's instance registry holds.
KnownInstances == {"i1"}

\* The payloads an orchestrator error carries (lib.rs 46-58: ProxyError wraps a
\* tonic::Status or a transport error, each with its own text).
Details == {"d1", "d2"}

NoResult == [ok |-> FALSE, kind |-> "none", detail |-> "none"]
OkResult == [ok |-> TRUE, kind |-> "none", detail |-> "none"]
ErrResult(k, d) == [ok |-> FALSE, kind |-> k, detail |-> d]

\* Orchestrator::stop_instance(id): Err(InstanceNotFound) for an unknown id; for a
\* known id Ok, or the error of the outbound call to the agent.
StopOutcomes(id) ==
    IF id \notin KnownInstances
      THEN {ErrResult("InstanceNotFound", "none")}
      ELSE {OkResult} \cup {ErrResult("ProxyError", d) : d \in Details}

\* instance_stop.rs 20: Ok(Response::new(()))
OkReply == [ok |-> TRUE, code |-> "Ok", message |-> <<>>]

\* instance_stop.rs 25-28: Err(tonic::Status::internal(format!("Error thrown by the
\* orchestrator: {:?}", err))): the Debug text of the error, payload included.
ErrReply(r) ==
    [ok |-> FALSE, code |-> "Internal",
     message |-> <<"Error thrown by the orchestrator: ", r.kind, r.detail>>]

\* instance_stop.rs 16-31, mutated: the Err arm replies like the Ok arm.
ReplyForAlwaysOk(r) == OkReply

\* instance_stop.rs 16-31: the reply chosen by the match on stop_instance's result.
ReplyFor(r) == IF r.ok THEN OkReply ELSE ErrReply(r)

\* instance_stop.rs 16, mutated: the handler enters without waiting for the mutex.
CanLockAlways(g) == TRUE

\* instance_stop.rs 16: `orchestrator.lock().await` returns once no guard is held.
CanLock(g) == g = 0

StopInit ==
    /\ hpc = [h \in Handlers |-> "idle"]
    /\ event = [h \in Handlers |-> "none"]
    /\ rxAlive = [h \in Handlers |-> TRUE]
    /\ guard = 0
    /\ result = [h \in Handlers |-> NoResult]
    /\ replies = [h \in Handlers |-> <<>>]

\* instance_stop.rs 11-15: handle(orchestrator, id, tx) is called for an event.
Handle(h, id) ==
    /\ hpc[h] = "idle"
    /\ event' = [event EXCEPT ![h] = id]
    /\ hpc' = [hpc EXCEPT ![h] = "lock"]
    /\ UNCHANGED <<rxAlive, guard, result, replies>>
    /\ UNCHANGED nonStopVars

\* instance_stop.rs 16: `orchestrator.lock().await`: the guard is a temporary of the
\* match scrutinee and lives to the end of the match.
Lock(h) ==
    /\ hpc[h] = "lock"
    /\ CanLock(guard)
    /\ guard' = h
    /\ hpc' = [hpc EXCEPT ![h] = "stop"]
    /\ UNCHANGED <<event, rxAlive, result, replies>>
    /\ UNCHANGED nonStopVars

\* instance_stop.rs 16: `.stop_instance(id.clone()).await` returns `r`.
StopInstance(h, r) ==
    /\ hpc[h] = "stop"
    /\ r \in StopOutcomes(event[h])
    /\ result' = [result EXCEPT ![h] = r]
    /\ hpc' = [hpc EXCEPT ![h] = "reply"]
    /\ UNCHANGED <<event, rxAlive, guard, replies>>
    /\ UNCHANGED nonStopVars

\* instance_stop.rs 17-30: `tx.send(..).unwrap()`: oneshot::Sender::send gives the
\* value back as Err when the receiver is dropped, and unwrap panics on it.
SendReply(h) ==
    /\ hpc[h] = "reply"
    /\ IF rxAlive[h]
         THEN /\ replies' = [replies EXCEPT ![h] = Append(@, ReplyFor(result[h]))]
              /\ hpc' = [hpc EXCEPT ![h] = "sent"]
         ELSE /\ hpc' = [hpc EXCEPT ![h] = "unwinding"]
              /\ UNCHANGED replies
    /\ UNCHANGED <<event, rxAlive, guard, result>>
    /\ UNCHANGED nonStopVars

\* instance_stop.rs 31-32: the match ends (or the panic unwinds through it) and the
\* guard is dropped.
Release(h) ==
    /\ hpc[h] \in {"sent", "unwinding"}
    /\ guard' = IF guard = h THEN 0 ELSE guard
    /\ hpc' = [hpc EXCEPT ![h] = IF hpc[h] = "sent" THEN "done" ELSE "panicked"]
    /\ UNCHANGED <<event, rxAlive, result, replies>>
    /\ UNCHANGED nonStopVars

\* lib.rs 70-73: the caller drops the oneshot::Receiver of the event it sent.
RxDrop(h) ==
    /\ hpc[h] # "idle"
    /\ rxAlive[h]
    /\ rxAlive' = [rxAlive EXCEPT ![h] = FALSE]
    /\ UNCHANGED <<hpc, event, guard, result, replies>>
    /\ UNCHANGED nonStopVars

StopNext ==
    \/ \E h \in Handlers, id \in InstanceIds : Handle(h, id)
    \/ \E h \in Handlers : Lock(h)
    \/ \E h \in Handlers : \E r \in StopOutcomes(event[h]) : StopInstance(h, r)
    \/ \E h \in Handlers : SendReply(h)
    \/ \E h \in Handlers : Release(h)
    \/ \E h \in Handlers : RxDrop(h)

(***************************************************************************)
(* NODE AGENT: InstanceServiceController                                   *)
(***************************************************************************)

RpcInit ==
    /\ req = [t \in Requests |-> "none"]
    /\ rpc = [t \in Requests |-> "none"]
    /\ tpc = [t \in Requests |-> "none"]
    /\ wmGuard = 0
    /\ stalled = {}
    /\ wmResult = [t \in Requests |-> "none"]

\* main.rs 49-71: create: the task is spawned and the receiver of the status channel
\* is returned at once, Ok(Response::new(ReceiverStream::new(channel.1))).
CreateRpc(t) ==
    /\ server = "listening"
    /\ req[t] = "none"
    /\ req' = [req EXCEPT ![t] = "create"]
    /\ tpc' = [tpc EXCEPT ![t] = "lock"]
    /\ rpc' = [rpc EXCEPT ![t] = "ok_stream"]
    /\ UNCHANGED <<wmGuard, stalled, wmResult>>
    /\ UNCHANGED nonRpcVars

\* main.rs 73-91: signal: the task is spawned and Ok(Response::new(())) is returned
\* at once.
SignalRpc(t) ==
    /\ server = "listening"
    /\ req[t] = "none"
    /\ req' = [req EXCEPT ![t] = "signal"]
    /\ tpc' = [tpc EXCEPT ![t] = "lock"]
    /\ rpc' = [rpc EXCEPT ![t] = "ok_unit"]
    /\ UNCHANGED <<wmGuard, stalled, wmResult>>
    /\ UNCHANGED nonRpcVars

\* main.rs 60-65, 80-85: `workload_manager.clone().lock().await` returns and the call
\* of create / signal starts under the guard, a temporary of the statement; `stalls`
\* says that the call never completes.
WmLock(t, stalls) ==
    /\ tpc[t] = "lock"
    /\ wmGuard = 0
    /\ wmGuard' = t
    /\ tpc' = [tpc EXCEPT ![t] = "in_wm"]
    /\ stalled' = IF stalls THEN stalled \cup {t} ELSE stalled
    /\ UNCHANGED <<req, rpc, wmResult>>
    /\ UNCHANGED nonRpcVars

\* main.rs 64-67, 84-88, mutated: the error of the WorkloadManager call is written to
\* the RPC's reply.
WmReturnPropagates(t, ok) ==
    /\ tpc[t] = "in_wm"
    /\ t \notin stalled
    /\ wmResult' = [wmResult EXCEPT ![t] = IF ok THEN "ok" ELSE "err"]
    /\ rpc' = [rpc EXCEPT ![t] = IF ok THEN @ ELSE "err"]
    /\ wmGuard' = 0
    /\ tpc' = [tpc EXCEPT ![t] = "done"]
    /\ UNCHANGED <<req, stalled>>
    /\ UNCHANGED nonRpcVars

\* main.rs 64-67: create(..).await.ok() drops the error and the task ends;
\* main.rs 84-88: signal(..).await.map_err(..).unwrap() panics the task on an error.
\* The guard is dropped at the end of the statement (or by the unwinding).
WmReturn(t, ok) ==
    /\ tpc[t] = "in_wm"
    /\ t \notin stalled
    /\ wmResult' = [wmResult EXCEPT ![t] = IF ok THEN "ok" ELSE "err"]
    /\ wmGuard' = 0
    /\ tpc' = [tpc EXCEPT ![t] =
                 IF ok \/ req[t] = "create" THEN "done" ELSE "panicked"]
    /\ UNCHANGED <<req, rpc, stalled>>
    /\ UNCHANGED nonRpcVars

RpcNext ==
    \/ \E t \in Requests : CreateRpc(t)
    \/ \E t \in Requests : SignalRpc(t)
    \/ \E t \in Requests, stalls \in BOOLEAN : WmLock(t, stalls)
    \/ \E t \in Requests, ok \in BOOLEAN : WmReturn(t, ok)

(***************************************************************************)
(* CONTROLLER: Instance (external_api/instance/model.rs)                   *)
(***************************************************************************)

\* Option::None; Some(x) is x.
None == [none |-> TRUE]

\* model.rs 64-69: ResourceSummary { cpu, memory, disk }
Summary(c, m, d) == [cpu |-> c, memory |-> m, disk |-> d]
Summaries == {Summary(1, 2, 3), Summary(4, 5, 6)}

\* The Workload values instances are built from (model.rs 137-172 reads id, name, uri,
\* environment, namespace, resources and ports).
Workloads ==
    { [id |-> "w1", name |-> "web", uri |-> "nginx", environment |-> <<"A=1">>,
       namespace |-> "default", resources |-> Summary(1, 2, 3),
       ports |-> << [source |-> 80, destination |-> 8080],
                    [source |-> 443, destination |-> 8443] >>],
      [id |-> "w2", name |-> "db", uri |-> "pg", environment |-> <<>>,
       namespace |-> "prod", resources |-> Summary(2, 2, 2),
       ports |-> <<>>] }

\* model.rs 139-143: the values `random_id` can take (5 alphanumeric characters drawn
\* from thread_rng).
Suffixes == {"aaaaa", "aaaab"}

\* proto::controller::InstanceState, an i32 is written as the variant it is the
\* discriminant of.
InstanceStates == {"Scheduling", "Running", "Stopped", "Failed"}

\* The i32 values of InstanceStatus.status: discriminants of InstanceState and an
\* i32 that is none.
StatusValues == {"Running", "invalid"}

\* proto::scheduler::Resource values of a report.
ReportResources ==
    {None} \cup
    { [limit |-> p[1], usage |-> p[2]] :
        p \in { <<None, None>>, <<Summary(1, 2, 3), None>>,
                <<None, Summary(4, 5, 6)>>, <<Summary(4, 5, 6), Summary(1, 2, 3)>> } }

\* proto::scheduler::InstanceStatus values given to update_instance.
Reports ==
    { [status |-> st, status_description |-> d, resource |-> r] :
        st \in StatusValues, d \in {"", "oom"}, r \in ReportResources }

\* model.rs 145-146: format!("{}-{}", a, b)
Format(a, b) == <<a, "-", b>>

\* model.rs 83-92, 117-130: Option<ResourceSummary>::map copying cpu, memory, disk.
MapSummary(o) ==
    IF o = None THEN None ELSE [cpu |-> o.cpu, memory |-> o.memory, disk |-> o.disk]

\* model.rs 80: InstanceState::from_i32(status).unwrap_or(InstanceState::Scheduling)
StateFromI32(status) == IF status \in InstanceStates THEN status ELSE "Scheduling"

\* model.rs 107: Ipv4Addr::to_string
Ipv4ToString(ip) == <<ip[1], ".", ip[2], ".", ip[3], ".", ip[4]>>

\* model.rs 137-172, mutated: usage starts as a zeroed summary.
FromWorkloadZeroUsage(workload, random_id) ==
    [ id |-> Format(workload.id, random_id),
      name |-> Format(workload.name, random_id),
      type |-> "Container",
      state |-> "Scheduling",
      status_description |-> "",
      num_restarts |-> 0,
      uri |-> workload.uri,
      environment |-> workload.environment,
      namespace |-> workload.namespace,
      resource |-> [ limit |-> Summary(workload.resources.cpu, workload.resources.memory,
                                       workload.resources.disk),
                     usage |-> Summary(0, 0, 0) ],
      ports |-> [k \in 1..Len(workload.ports) |->
                    [source |-> workload.ports[k].source,
                     dest |-> workload.ports[k].destination]],
      ip |-> <<10, 0, 0, 1>> ]

\* model.rs 137-172: impl From<Workload> for Instance, with the suffix drawn.
FromWorkload(workload, random_id) ==
    [ id |-> Format(workload.id, random_id),
      name |-> Format(workload.name, random_id),
      type |-> "Container",
      state |-> "Scheduling",
      status_description |-> "",
      num_restarts |-> 0,
      uri |-> workload.uri,
      environment |-> workload.environment,
      namespace |-> workload.namespace,
      resource |-> [ limit |-> Summary(workload.resources.cpu, workload.resources.memory,
                                       workload.resources.disk),
                     usage |-> None ],
      ports |-> [k \in 1..Len(workload.ports) |->
                    [source |-> workload.ports[k].source,
                     dest |-> workload.ports[k].destination]],
      ip |-> <<10, 0, 0, 1>> ]

\* model.rs 78-94, mutated: a report without usage keeps the usage recorded before.
UpdateInstanceMerges(self, instance_status) ==
    [ self EXCEPT
        !.state = StateFromI32(instance_status.status),
        !.status_description = instance_status.status_description,
        !.resource =
            IF instance_status.resource = None THEN self.resource
            ELSE [ limit |-> MapSummary(instance_status.resource.limit),
                   usage |-> IF instance_status.resource.usage = None /\ self.resource # None
                               THEN self.resource.usage
                               ELSE MapSummary(instance_status.resource.usage) ] ]

\* model.rs 78-94: Instance::update_instance
UpdateInstance(self, instance_status) ==
    [ self EXCEPT
        !.state = StateFromI32(instance_status.status),
        !.status_description = instance_status.status_description,
        !.resource =
            IF instance_status.resource = None THEN None
            ELSE [ limit |-> MapSummary(instance_status.resource.limit),
                   usage |-> MapSummary(instance_status.resource.usage) ] ]

\* model.rs 99-135, mutated: source and destination of a port are exchanged.
ToProtoSwapsPorts(self) ==
    [ id |-> self.id,
      name |-> self.name,
      type |-> self.type,
      status |-> self.state,
      environnement |-> self.environment,
      ip |-> Ipv4ToString(self.ip),
      ports |-> [k \in 1..Len(self.ports) |->
                    [source |-> self.ports[k].dest, destination |-> self.ports[k].source]],
      resource |-> IF self.resource = None THEN None
                   ELSE [ limit |-> MapSummary(self.resource.limit),
                          usage |-> MapSummary(self.resource.usage) ],
      uri |-> self.uri ]

\* model.rs 99-135: impl Into<proto::scheduler::Instance> for Instance
ToProto(self) ==
    [ id |-> self.id,
      name |-> self.name,
      type |-> self.type,
      status |-> self.state,
      environnement |-> self.environment,
      ip |-> Ipv4ToString(self.ip),
      ports |-> [k \in 1..Len(self.ports) |->
                    [source |-> self.ports[k].source, destination |-> self.ports[k].dest]],
      resource |-> IF self.resource = None THEN None
                   ELSE [ limit |-> MapSummary(self.resource.limit),
                          usage |-> MapSummary(self.resource.usage) ],
      uri |-> self.uri ]

\* resource.limit and resource.usage of an Instance, None when resource is None.
LimitOf(x) == IF x.resource = None THEN None ELSE x.resource.limit
UsageOf(x) == IF x.resource = None THEN None ELSE x.resource.usage

InstInit ==
    /\ created = <<>>
    /\ instance = None
    /\ lastReport = None
    /\ prevUsage = None
    /\ wire = None

\* model.rs 137-172: Instance::from(workload)
From(workload, random_id) ==
    /\ Len(created) < MaxInstances
    /\ instance' = FromWorkload(workload, random_id)
    /\ created' = Append(created, [workload |-> workload,
                                   built |-> FromWorkload(workload, random_id)])
    /\ lastReport' = None
    /\ prevUsage' = None
    /\ wire' = None
    /\ UNCHANGED nonInstVars

\* model.rs 78-94: instance.update_instance(instance_status)
Update(instance_status) ==
    /\ instance # None
    /\ instance' = UpdateInstance(instance, instance_status)
    /\ lastReport' = instance_status
    /\ prevUsage' = UsageOf(instance)
    /\ wire' = None
    /\ UNCHANGED created
    /\ UNCHANGED nonInstVars

\* model.rs 99-135: instance.clone().into()
Into ==
    /\ instance # None
    /\ wire' = ToProto(instance)
    /\ UNCHANGED <<created, instance, lastReport, prevUsage>>
    /\ UNCHANGED nonInstVars

InstNext ==
    \/ \E w \in Workloads, sfx \in Suffixes : From(w, sfx)
    \/ \E st \in Reports : Update(st)
    \/ Into

(***************************************************************************)
(* NODE AGENT: the status stream of send_node_status_to_scheduler          *)
(***************************************************************************)

\* What NodeSystem::total_cpu / total_memory / total_disk can return.
NodeTotals == {Summary(4, 8, 100), Summary(8, 16, 200)}

\* What NodeSystem::used_cpu / used_memory / used_disk can return.
NodeUsages == {Summary(1, 2, 10), Summary(2, 4, 20)}

\* main.rs 290: the node id main generates, a uuid.
NodeId == "n1"

\* main.rs 142-144, 149-151: the three values are read in this order, each by its own
\* `node_system_arc.lock().await`.
ResourceFields == {"cpu", "memory", "disk"}
Unread == <<>>
Complete(read) == DOMAIN read = ResourceFields
NextField(read) ==
    IF "cpu" \notin DOMAIN read THEN "cpu"
    ELSE IF "memory" \notin DOMAIN read THEN "memory"
    ELSE "disk"

\* One more value read into the locals read so far.
WithField(read, value) ==
    [f \in DOMAIN read \cup {NextField(read)} |->
        IF f \in DOMAIN read THEN read[f] ELSE value]

\* main.rs 153-169: the NodeStatus of one tick: the limits of the stream and the
\* usages read at the tick.
NodeStatusOf(node_id, lim, use) ==
    [ id |-> node_id,
      status |-> "Running",
      status_description |-> "",
      resource |-> [ limit |-> [cpu |-> lim.cpu, memory |-> lim.memory, disk |-> lim.disk],
                     usage |-> [cpu |-> use.cpu, memory |-> use.memory, disk |-> use.disk] ] ]

StreamInit ==
    /\ nodeSystem \in [total : {Summary(4, 8, 100)}, used : {Summary(1, 2, 10)}]
    /\ streaming = FALSE
    /\ limits = Unread
    /\ usage = Unread
    /\ ticks = 0
    /\ sent = <<>>

\* main.rs 139-140: a status call starts polling a fresh stream: the interval is made.
StreamStart ==
    /\ ~streaming
    /\ streaming' = TRUE
    /\ limits' = Unread
    /\ usage' = Unread
    /\ ticks' = 0
    /\ sent' = <<>>
    /\ UNCHANGED nodeSystem
    /\ UNCHANGED nonStreamVars

\* main.rs 142-144: one of total_cpu(), total_memory(), total_disk() is read, under
\* its own lock of NodeSystem.
ReadTotal ==
    /\ streaming
    /\ ~Complete(limits)
    /\ limits' = WithField(limits, nodeSystem.total[NextField(limits)])
    /\ UNCHANGED <<nodeSystem, streaming, usage, ticks, sent>>
    /\ UNCHANGED nonStreamVars

\* main.rs 146-147: a turn of the loop begins: interval.tick().await completes.
StreamTick ==
    /\ streaming
    /\ Complete(limits)
    /\ ticks = Len(sent)
    /\ ticks < MaxReports
    /\ ticks' = ticks + 1
    /\ UNCHANGED <<nodeSystem, streaming, limits, usage, sent>>
    /\ UNCHANGED nonStreamVars

\* main.rs 149-151: one of used_cpu(), used_memory(), used_disk() is read, under its
\* own lock of NodeSystem.
ReadUsed ==
    /\ streaming
    /\ ticks = Len(sent) + 1
    /\ ~Complete(usage)
    /\ usage' = WithField(usage, nodeSystem.used[NextField(usage)])
    /\ UNCHANGED <<nodeSystem, streaming, limits, ticks, sent>>
    /\ UNCHANGED nonStreamVars

\* main.rs 153-173, mutated: the usages read at a tick are kept for the next one.
StreamYieldKeepsUsage ==
    /\ streaming
    /\ ticks = Len(sent) + 1
    /\ Complete(usage)
    /\ sent' = Append(sent, NodeStatusOf(NodeId, limits, usage))
    /\ UNCHANGED <<nodeSystem, streaming, limits, usage, ticks>>
    /\ UNCHANGED nonStreamVars

\* main.rs 153-173: the NodeStatus is built and yielded; the locals of the turn end.
StreamYield ==
    /\ streaming
    /\ ticks = Len(sent) + 1
    /\ Complete(usage)
    /\ sent' = Append(sent, NodeStatusOf(NodeId, limits, usage))
    /\ usage' = Unread
    /\ UNCHANGED <<nodeSystem, streaming, limits, ticks>>
    /\ UNCHANGED nonStreamVars

\* main.rs 177: client.status(..) returns and the stream is dropped.
StreamEnd ==
    /\ streaming
    /\ streaming' = FALSE
    /\ UNCHANGED <<nodeSystem, limits, usage, ticks, sent>>
    /\ UNCHANGED nonStreamVars

\* The node's load (or its hardware) changes between two reads of NodeSystem.
NodeSystemChanges(total, used) ==
    /\ nodeSystem # [total |-> total, used |-> used]
    /\ nodeSystem' = [total |-> total, used |-> used]
    /\ UNCHANGED <<streaming, limits, usage, ticks, sent>>
    /\ UNCHANGED nonStreamVars

StreamNext ==
    \/ StreamStart
    \/ ReadTotal
    \/ StreamTick
    \/ ReadUsed
    \/ StreamYield
    \/ StreamEnd
    \/ \E total \in NodeTotals, used \in NodeUsages : NodeSystemChanges(total, used)

(***************************************************************************)
(* CONTROLLER: the HTTP handlers of external_api::instance::controller     *)
(***************************************************************************)

\* controller.rs 129-139: the handlers get_services routes to.
Routes == {"put_instance", "delete_instance", "patch_instance", "get_instance"}

\* controller.rs 133-138: the methods get_services serves.
Methods == {"PUT", "DELETE", "GET", "PATCH"}

\* controller.rs 133-138: the handler each method is routed to.
HandlerOf(method) ==
    CASE method = "PUT" -> "put_instance"
      [] method = "DELETE" -> "delete_instance"
      [] method = "GET" -> "get_instance"
      [] method = "PATCH" -> "patch_instance"

\* controller.rs 132, 138: the dynamic segments of the resource a method is served on:
\* "/{namespace}" for PUT, "/{namespace}/{instance_id}" for DELETE, GET and PATCH.
SegmentCount(method) == IF method = "PUT" THEN 1 ELSE 2

\* The values of the handlers' two parameters.
Namespaces == {"default", "other"}
WorkloadIds == {"w1", "w2"}

\* controller.rs 17-18, 50-51, 72-73, 106-107: what a `web::Path<String>` parameter
\* is given from the matched segments: the segment when there is exactly one, and no
\* value (actix answers 404 itself) otherwise.
PathString(segments) == IF Len(segments) = 1 THEN segments[1] ELSE None

HttpResponse(status, body) == [status |-> status, body |-> body]

\* controller.rs 38-39, 42-43, 62-63, 92-93, 96-97, 118-119
InternalServerError == HttpResponse(500, "Internal Server Error")

\* controller.rs 46, 67, 101, 124: the answer when WorkloadService::get_workload fails.
WorkloadLookupFailed(handler) ==
    IF handler = "get_instance"
    THEN HttpResponse(404, "Instance not found")
    ELSE HttpResponse(404, "Workload not found")

\* controller.rs 65, 99, 121-122: the answer when InstanceService::get_instance fails.
InstanceLookupFailed(handler) ==
    IF handler = "get_instance"
    THEN InternalServerError
    ELSE HttpResponse(404, "Instance not found")

\* controller.rs 82-98, mutated: patch_instance starts the replacement whatever
\* delete_instance returned.
AfterDeleteStartsAnyway(handler, ok) ==
    IF handler = "patch_instance" THEN "start" ELSE "responded"

\* controller.rs 60-64, 82-98: where the handler goes when delete_instance returned.
AfterDelete(handler, ok) ==
    IF handler = "patch_instance" /\ ok THEN "start" ELSE "responded"

\* One service call as the handler made it.
Call(service, arg, ok) == [service |-> service, arg |-> arg, ok |-> ok]

\* The Instance InstanceService::get_instance returns for a workload id.
InstanceOf(workload_id) == [workload_id |-> workload_id]

CtrlInit ==
    /\ op = None
    /\ cpc = "idle"
    /\ calls = <<>>
    /\ response = None

\* What actix answers by itself when a `web::Path<String>` cannot be extracted: 404
\* with the deserializer's message as body (no PathConfig is set in controller.rs).
PathError(segments) ==
    HttpResponse(404, <<"wrong number of parameters: ", Len(segments), " expected 1">>)

\* What actix answers by itself when the resource matched has no route for the method.
MethodNotAllowed == HttpResponse(405, "")

\* controller.rs 129-139 with the handlers' parameters (17-18, 50-51, 72-73, 106-107):
\* actix matches the path to the resource with as many segments and serves the
\* request when the resource has a route for the method, and answers 405 otherwise.
\* Both parameters of the handler are `web::Path<String>`, so both are given the same
\* value; on the two-segment resource there is none, the handler is not entered and
\* actix answers.
Route(method, segments) ==
    /\ cpc \in {"idle", "responded"}
    /\ calls' = <<>>
    /\ IF Len(segments) # SegmentCount(method)
       THEN /\ op' = [handler |-> "none", namespace |-> None, workload_id |-> None]
            /\ cpc' = "responded"
            /\ response' = MethodNotAllowed
       ELSE /\ op' = [handler |-> HandlerOf(method), namespace |-> PathString(segments),
                      workload_id |-> PathString(segments)]
            /\ IF Len(segments) = 1
               THEN /\ cpc' = "get_workload"
                    /\ response' = None
               ELSE /\ cpc' = "responded"
                    /\ response' = PathError(segments)
    /\ UNCHANGED nonCtrlVars

\* controller.rs 16-21, 49-54, 71-76, 105-110: a handler is entered with its two
\* parameters (called as a function, not through get_services) and builds its services.
Invoke(handler, namespace, workload_id) ==
    /\ cpc \in {"idle", "responded"}
    /\ op' = [handler |-> handler, namespace |-> namespace, workload_id |-> workload_id]
    /\ cpc' = "get_workload"
    /\ calls' = <<>>
    /\ response' = None
    /\ UNCHANGED nonCtrlVars

\* controller.rs 22-25, 55-58, 77-80, 111-114: get_workload returns.
GetWorkload(ok) ==
    /\ cpc = "get_workload"
    /\ calls' = Append(calls, Call("get_workload", <<op.workload_id, op.namespace>>, ok))
    /\ IF ok
       THEN /\ cpc' = IF op.handler = "put_instance" THEN "parse" ELSE "get_instance"
            /\ UNCHANGED response
       ELSE /\ cpc' = "responded"
            /\ response' = WorkloadLookupFailed(op.handler)
    /\ UNCHANGED op
    /\ UNCHANGED nonCtrlVars

\* controller.rs 27-29, 42-43: put_instance parses the workload.
ParseWorkload(ok) ==
    /\ cpc = "parse"
    /\ calls' = Append(calls, Call("from_str", op.workload_id, ok))
    /\ IF ok
       THEN /\ cpc' = "start"
            /\ UNCHANGED response
       ELSE /\ cpc' = "responded"
            /\ response' = InternalServerError
    /\ UNCHANGED op
    /\ UNCHANGED nonCtrlVars

\* controller.rs 59, 65, 81, 99, 115, 121-122: InstanceService::get_instance returns.
GetInstance(ok) ==
    /\ cpc = "get_instance"
    /\ calls' = Append(calls, Call("get_instance", op.workload_id, ok))
    /\ IF ok
       THEN /\ cpc' = IF op.handler = "get_instance" THEN "serialize" ELSE "delete"
            /\ UNCHANGED response
       ELSE /\ cpc' = "responded"
            /\ response' = InstanceLookupFailed(op.handler)
    /\ UNCHANGED op
    /\ UNCHANGED nonCtrlVars

\* controller.rs 60-64, 82-83, 96-97: InstanceService::delete_instance returns.
DeleteInstance(ok) ==
    /\ cpc = "delete"
    /\ calls' = Append(calls, Call("delete_instance", InstanceOf(op.workload_id), ok))
    /\ cpc' = AfterDelete(op.handler, ok)
    /\ response' = IF cpc' # "responded" THEN response
                   ELSE IF ok THEN HttpResponse(200, "Instance deleted")
                   ELSE InternalServerError
    /\ UNCHANGED op
    /\ UNCHANGED nonCtrlVars

\* controller.rs 30-40, 84-94: InstanceService::retrieve_and_start_instance returns.
StartInstance(ok) ==
    /\ cpc = "start"
    /\ calls' = Append(calls, Call("retrieve_and_start_instance", op.workload_id, ok))
    /\ cpc' = "responded"
    /\ response' = IF ok THEN HttpResponse(201, "Instance creating and starting...")
                   ELSE InternalServerError
    /\ UNCHANGED op
    /\ UNCHANGED nonCtrlVars

\* controller.rs 116-120: get_instance serializes the instance it found.
Serialize(ok) ==
    /\ cpc = "serialize"
    /\ calls' = Append(calls, Call("to_string", InstanceOf(op.workload_id), ok))
    /\ cpc' = "responded"
    /\ response' = IF ok THEN HttpResponse(200, <<"json", InstanceOf(op.workload_id)>>)
                   ELSE InternalServerError
    /\ UNCHANGED op
    /\ UNCHANGED nonCtrlVars

CtrlNext ==
    \/ \E method \in Methods, a \in Namespaces, b \in WorkloadIds :
          \E segments \in {<<a>>, <<b>>, <<a, b>>} : Route(method, segments)
    \/ \E handler \in Routes, namespace \in Namespaces, workload_id \in WorkloadIds :
          Invoke(handler, namespace, workload_id)
    \/ \E ok \in BOOLEAN : GetWorkload(ok)
    \/ \E ok \in BOOLEAN : ParseWorkload(ok)
    \/ \E ok \in BOOLEAN : GetInstance(ok)
    \/ \E ok \in BOOLEAN : DeleteInstance(ok)
    \/ \E ok \in BOOLEAN : StartInstance(ok)
    \/ \E ok \in BOOLEAN : Serialize(ok)

(***************************************************************************)
(* Specifications                                                          *)
(***************************************************************************)
Init == AgentInit /\ StopInit /\ RpcInit /\ InstInit /\ StreamInit /\ CtrlInit

\* The Node Agent process.
AgentSpec == Init /\ [][AgentNext]_vars

\* The Node Agent process, whose client task is scheduled whenever it can take a step
\* of its startup (tokio runs a spawned task that is ready; every connect and register
\* call returns), and whose main is woken when the client task it awaits has ended.
AgentFairSpec == AgentSpec /\ WF_vars(ClientStartup) /\ WF_vars(MainJoinClient)

\* The Node Agent process when every call the client task makes to the Scheduler
\* returns, the status calls included, and the task is run whenever it is ready.
AgentTermSpec == AgentSpec /\ WF_vars(ClientStep) /\ WF_vars(MainJoinClient)

\* The Scheduler's InstanceStop handlers.
StopSpec == Init /\ [][StopNext]_vars

\* The Node Agent's instance-control server.
RpcSpec == Init /\ [][RpcNext]_vars

\* The controller's Instance values.
InstSpec == Init /\ [][InstNext]_vars

\* One Node Agent's status streams, one after the other.
StreamSpec == Init /\ [][StreamNext]_vars

\* The controller's instance handlers, one request at a time.
CtrlSpec == Init /\ [][CtrlNext]_vars

(***************************************************************************)
(* Node Agent: registration and heartbeat protocol                         *)
(***************************************************************************)

\* Disconnected = 0, Connected = 1, Registered = 2, Streaming = 3
PhaseRank ==
    IF statusCalls > 0 THEN 3
    ELSE IF registration THEN 2
    ELSE IF connection THEN 1
    ELSE 0

\* Requests the Scheduler has refused so far, per phase.
ConnectRefusals ==
    connectCalls - (IF pc \in {"connect_call", "connect_retry_call"} \/ connection THEN 1 ELSE 0)
RegisterRefusals ==
    registerCalls - (IF pc \in {"register_call", "register_retry_call"} \/ registration THEN 1 ELSE 0)
StatusFailures ==
    statusCalls - (IF pc \in {"status_call", "status_retry_call"} \/ send_node_resources_to_scheduler THEN 1 ELSE 0)

\* C1: the client moves strictly through Disconnected -> Connected -> Registered ->
\* Streaming: a registration request is sent only once a connection attempt has
\* succeeded, a status-stream call is made only once a registration has succeeded, a
\* phase is entered from the one before it only, and no earlier phase's call is
\* repeated after the next phase has started.
C1_StrictPhaseOrder ==
    [][ /\ (registerCalls' # registerCalls => connection)
        /\ (statusCalls' # statusCalls => (connection /\ registration))
        /\ (registerCalls > 0 => connectCalls' = connectCalls)
        /\ (statusCalls > 0 => (registerCalls' = registerCalls /\ connectCalls' = connectCalls))
        /\ (connection => connection')
        /\ (registration => registration')
        /\ PhaseRank' \in {PhaseRank, PhaseRank + 1} ]_vars

\* C1 witness: the stream phase is reached after retries in the connect and register
\* phases, and a report has been emitted.
C1_Witness ==
    /\ pc = "status_call"
    /\ reports > 0
    /\ connectCalls > 1
    /\ registerCalls > 1

\* C2 (as claimed): when every request of a phase is refused the agent makes exactly
\* 11 attempts (the initial one and NUMBER_OF_CONNECTION_ATTEMPTS retries) and then
\* panics; no phase ever makes a 12th attempt.
C2_ElevenAttemptsThenFatal ==
    /\ connectCalls <= NUMBER_OF_CONNECTION_ATTEMPTS + 1
    /\ registerCalls <= NUMBER_OF_CONNECTION_ATTEMPTS + 1
    /\ statusCalls <= NUMBER_OF_CONNECTION_ATTEMPTS + 1
    /\ (pc = "panic_connect" => connectCalls = NUMBER_OF_CONNECTION_ATTEMPTS + 1)
    /\ (pc = "panic_register" => registerCalls = NUMBER_OF_CONNECTION_ATTEMPTS + 1)
    /\ (pc = "panic_status" => statusCalls = NUMBER_OF_CONNECTION_ATTEMPTS + 1)

\* The client task has left the connect phase without a connection.
ConnectExhausted ==
    /\ pc \notin {"connect", "connect_call", "connect_loop", "connect_sleep", "connect_retry_call"}
    /\ ~connection

\* C3: when every connection attempt is refused the client task panics, main returns
\* the error and the process (the instance-control server with it) stops; no
\* registration request and no status report is sent in that execution.
C3_ConnectExhaustionIsFatal ==
    /\ [](ConnectExhausted =>
            /\ pc = "panic_connect"
            /\ registerCalls = 0
            /\ statusCalls = 0
            /\ ~reported
            /\ mainPc \in {"await_client", "exit_err"})
    /\ [](pc = "panic_connect" => (~connection /\ ConnectRefusals = connectCalls))
    /\ (ConnectExhausted ~> (mainPc = "exit_err" /\ server # "listening"))
    /\ [][(ConnectExhausted /\ mainPc = "exit_err") => (mainPc' = "exit_err" /\ server' = server)]_vars

\* C3 witness: the process has exited on the connect panic.
C3_Witness ==
    /\ pc = "panic_connect"
    /\ mainPc = "exit_err"
    /\ server = "stopped"
    /\ ConnectRefusals = connectCalls

\* The Scheduler refuses at most the first k connection attempts and accepts every
\* other request.
SchedulerAcceptsAfter(k) ==
    /\ ConnectRefusals <= k
    /\ RegisterRefusals = 0
    /\ StatusFailures = 0

\* C4: when the Scheduler refuses the first k connection attempts, k at most the retry
\* bound (5 for instance), and accepts every later request, the client reaches
\* Registered and never the fatal error state.
C4_RegistersAfterRefusals ==
    ([]SchedulerAcceptsAfter(NUMBER_OF_CONNECTION_ATTEMPTS))
        => ((<>registration) /\ [](~Fatal))

\* C4 witness: registered after exactly 5 refused connection attempts.
C4_Witness ==
    /\ registration
    /\ ConnectRefusals = 5
    /\ connectCalls = 6
    /\ RegisterRefusals = 0
    /\ ~Fatal

\* C5 (as claimed): once a NodeStatus report has been emitted, the agent never sleeps
\* and never issues another status-stream, connect or register call.
C5_NoRetryAfterReport ==
    [][reported => /\ statusCalls' = statusCalls
                   /\ sleeps' = sleeps
                   /\ connectCalls' = connectCalls
                   /\ registerCalls' = registerCalls]_vars

\* C5 (amended): once a NodeStatus report has been emitted, the agent never issues
\* another connect or register call; a status call that fails afterwards is retried
\* like a failure to establish the stream: one sleep and one new status-stream call
\* per retry, made from the retry loop and only after a failed call.
C5_RetryAfterReportIsStatusOnly ==
    [][reported =>
            /\ connectCalls' = connectCalls
            /\ registerCalls' = registerCalls
            /\ sleeps' # sleeps =>
                  /\ pc = "status_loop"
                  /\ ~send_node_resources_to_scheduler
                  /\ sleeps' = sleeps + 1
                  /\ statusCalls' = statusCalls
                  /\ pc' = "status_sleep"
            /\ statusCalls' # statusCalls =>
                  /\ pc = "status_sleep"
                  /\ ~send_node_resources_to_scheduler
                  /\ statusCalls' = statusCalls + 1
                  /\ sleeps' = sleeps
                  /\ pc' = "status_retry_call" ]_vars

\* C5 witness: a status call was retried after a report had been emitted on a stream
\* that failed.
C5_Witness ==
    /\ pc = "status_retry_call"
    /\ reports = 0
    /\ reported
    /\ statusCalls > 1
    /\ connectCalls = 1
    /\ registerCalls = 1

(***************************************************************************)
(* Scheduler: the reply of InstanceStopHandler::handle                     *)
(***************************************************************************)

Holding == {h \in Handlers : hpc[h] \in {"stop", "reply", "sent", "unwinding"}}

\* C6: for every InstanceStop event the handler sends exactly one reply on the
\* one-shot channel when the receiver is alive, a success payload if and only if
\* stop_instance returned Ok and a failure status if and only if it returned Err;
\* never two replies, and none before stop_instance has returned.
C6_ExactlyOneReply ==
    \A h \in Handlers :
        /\ Len(replies[h]) <= 1
        /\ (hpc[h] \in {"idle", "lock", "stop", "reply"} => replies[h] = <<>>)
        /\ (hpc[h] \in {"sent", "done"} =>
                /\ Len(replies[h]) = 1
                /\ (replies[h][1].ok <=> result[h].ok)
                /\ (replies[h][1].code = "Ok" <=> result[h].ok)
                /\ result[h] \in StopOutcomes(event[h]))
        /\ (hpc[h] \in {"unwinding", "panicked"} => (~rxAlive[h] /\ replies[h] = <<>>))

\* C6 witness: one handler has replied success and another has replied failure.
C6_Witness ==
    \E h1, h2 \in Handlers :
        /\ hpc[h1] = "done" /\ result[h1].ok /\ replies[h1] = <<OkReply>>
        /\ hpc[h2] = "done" /\ ~result[h2].ok /\ Len(replies[h2]) = 1

\* C7 (as claimed): a handler whose event's receiver was dropped before the reply
\* only logs and returns: no handler ever panics.
C7_NoPanicOnDroppedReceiver ==
    \A h \in Handlers : hpc[h] \notin {"unwinding", "panicked"}

\* C8 (as claimed): when stop_instance fails because the instance id is unknown, the
\* reply carries a not-found status, distinct from the status of internal failures.
C8_NotFoundIsDistinct ==
    \A h \in Handlers :
        (replies[h] # <<>> /\ result[h].kind = "InstanceNotFound")
            => replies[h][1].code = "NotFound"

\* C9 (as claimed): the failure reply does not carry the orchestrator's error detail:
\* two orchestrator errors of the same kind give the caller the same message.
C9_NoDetailInReply ==
    \A h1, h2 \in Handlers :
        (/\ replies[h1] # <<>> /\ replies[h2] # <<>>
         /\ ~result[h1].ok /\ ~result[h2].ok
         /\ result[h1].kind = result[h2].kind)
            => replies[h1][1].message = replies[h2][1].message

\* C10: registry access is serialized: at most one handler at a time is executing
\* stop_instance, and it is the one holding the orchestrator mutex.
C10_StopInstanceSerialized ==
    /\ Cardinality({h \in Handlers : hpc[h] = "stop"}) <= 1
    /\ Cardinality(Holding) <= 1
    /\ \A h \in Holding : guard = h

\* C10 witness: one handler is executing stop_instance while another waits for the
\* mutex.
C10_Witness ==
    \E h1, h2 \in Handlers :
        /\ h1 # h2
        /\ hpc[h1] = "stop" /\ guard = h1
        /\ hpc[h2] = "lock"

\* C19 (as claimed): the handler does not hold the orchestrator mutex while
\* stop_instance (and the outbound stop call it makes) is in flight, nor while the
\* reply is sent: the guard is released before both.
C19_LockReleasedBeforeIO ==
    \A h \in Handlers :
        /\ (hpc[h] = "stop" => guard # h)
        /\ (hpc[h] \in {"sent", "unwinding"} => guard # h)

(***************************************************************************)
(* Node Agent: the Create and Signal RPCs                                  *)
(***************************************************************************)

\* C11 (as claimed): the Signal RPC never returns a success acknowledgment for a
\* signal whose WorkloadManager::signal call failed.
C11_SignalFailureReported ==
    \A t \in Requests :
        (req[t] = "signal" /\ wmResult[t] = "err") => rpc[t] # "ok_unit"

\* C12: the Create RPC returns the status stream successfully whatever
\* WorkloadManager::create does later: once the request is accepted the reply is the
\* stream, also after create has failed, and the task does not panic.
C12_CreateAlwaysReturnsStream ==
    \A t \in Requests :
        req[t] = "create" => (rpc[t] = "ok_stream" /\ tpc[t] # "panicked")

\* C12 witness: create has failed after the RPC returned the stream.
C12_Witness ==
    \E t \in Requests :
        /\ req[t] = "create"
        /\ wmResult[t] = "err"
        /\ tpc[t] = "done"
        /\ rpc[t] = "ok_stream"

\* C13 (as claimed): while the create call of one instance is stalled, the task of
\* another Create or Signal request that waits for the workload manager can enter it.
C13_StallDoesNotBlockOthers ==
    \A t1, t2 \in Requests :
        (/\ t1 # t2
         /\ req[t1] = "create" /\ tpc[t1] = "in_wm" /\ t1 \in stalled
         /\ tpc[t2] = "lock")
            => ENABLED WmLock(t2, FALSE)

(***************************************************************************)
(* Controller: Instance values                                             *)
(***************************************************************************)

\* C14 (as claimed): update_instance changes only state, status_description and
\* resource.usage: resource.limit, id, name, type, num_restarts, uri, environment,
\* ports, ip and namespace are the same after the call, whatever the report.
C14_UpdateKeepsLimit ==
    [][(instance # None /\ lastReport' # None) =>
            /\ LimitOf(instance') = LimitOf(instance)
            /\ instance'.id = instance.id
            /\ instance'.name = instance.name
            /\ instance'.type = instance.type
            /\ instance'.num_restarts = instance.num_restarts
            /\ instance'.uri = instance.uri
            /\ instance'.environment = instance.environment
            /\ instance'.ports = instance.ports
            /\ instance'.ip = instance.ip
            /\ instance'.namespace = instance.namespace ]_vars

\* C15: into() keeps id, the ports (same length and order, source to source and dest
\* to destination) and resource.limit and resource.usage with their presence; and the
\* resource update_instance stores has the presence and the cpu, memory and disk
\* values of the report's resource.
C15_ConversionsPreserveFields ==
    /\ wire # None =>
          /\ wire.id = instance.id
          /\ Len(wire.ports) = Len(instance.ports)
          /\ \A k \in 1..Len(instance.ports) :
                /\ wire.ports[k].source = instance.ports[k].source
                /\ wire.ports[k].destination = instance.ports[k].dest
          /\ (wire.resource = None) <=> (instance.resource = None)
          /\ wire.resource # None =>
                /\ wire.resource.limit = instance.resource.limit
                /\ wire.resource.usage = instance.resource.usage
    /\ lastReport # None =>
          /\ (instance.resource = None) <=> (lastReport.resource = None)
          /\ lastReport.resource # None =>
                /\ instance.resource.limit = lastReport.resource.limit
                /\ instance.resource.usage = lastReport.resource.usage

\* C15 witness: an instance with two ports, a limit and a usage has been converted.
C15_Witness ==
    /\ wire # None
    /\ Len(wire.ports) = 2
    /\ wire.ports[1].source # wire.ports[1].destination
    /\ wire.resource # None
    /\ wire.resource.limit # None
    /\ wire.resource.usage # None
    /\ lastReport # None

\* C16: every Instance built from a Workload starts in state Scheduling with
\* num_restarts 0, an empty status_description, resource.limit equal to the workload's
\* cpu, memory and disk, and no resource.usage; its id and name are the workload's id
\* and name followed by '-' and one and the same suffix.
C16_FromWorkload ==
    \A k \in 1..Len(created) :
        LET w == created[k].workload
            x == created[k].built
        IN /\ x.state = "Scheduling"
           /\ x.num_restarts = 0
           /\ x.status_description = ""
           /\ x.resource # None
           /\ x.resource.limit = [cpu |-> w.resources.cpu, memory |-> w.resources.memory,
                                  disk |-> w.resources.disk]
           /\ x.resource.usage = None
           /\ \E sfx \in Suffixes :
                 /\ x.id = <<w.id, "-", sfx>>
                 /\ x.name = <<w.name, "-", sfx>>
           /\ (lastReport = None /\ k = Len(created)) => instance = x

\* C16 witness: instances have been built from both workloads.
C16_Witness ==
    /\ Len(created) >= 2
    /\ created[1].workload # created[2].workload
    /\ lastReport = None
    /\ instance = created[2].built

\* C17 (as claimed): two Instances built from the same Workload never have the same
\* id.
C17_IdsNeverCollide ==
    \A j, k \in 1..Len(created) :
        (j # k /\ created[j].workload = created[k].workload)
            => created[j].built.id # created[k].built.id

\* C20: newest report wins: after any sequence of update_instance calls the
\* instance's resource.usage and status_description are those of the last report,
\* whatever was recorded before, and its state is the last report's status whenever
\* that status is an InstanceState.
C20_NewestReportWins ==
    lastReport # None =>
        /\ UsageOf(instance) = UsageOf(lastReport)
        /\ instance.status_description = lastReport.status_description
        /\ lastReport.status \in InstanceStates => instance.state = lastReport.status

\* C20 witness: a report without usage has replaced a usage recorded by an earlier
\* report.
C20_Witness ==
    /\ lastReport # None
    /\ prevUsage # None
    /\ UsageOf(lastReport) = None
    /\ UsageOf(instance) = None
    /\ instance.state = "Running"

(***************************************************************************)
(* Node Agent: the NodeStatus reports of one status stream                 *)
(***************************************************************************)

\* C18: within one status stream every NodeStatus carries the same resource.limit,
\* the totals the stream read once, before its first tick; each value of a report's
\* resource.usage is read from NodeSystem during that report's own tick, after the
\* report before it was emitted; and exactly one report is emitted per tick.
C18_LimitOnceUsagePerTick ==
    /\ [](streaming =>
             /\ ticks \in {Len(sent), Len(sent) + 1}
             /\ ticks > 0 => Complete(limits)
             /\ ticks = Len(sent) => usage = Unread
             /\ \A k \in 1..Len(sent) :
                   /\ sent[k].resource.limit = limits
                   /\ sent[k].resource.limit = sent[1].resource.limit)
    /\ [][(streaming /\ streaming') =>
             /\ limits' # limits =>
                   /\ ticks = 0 /\ ~Complete(limits)
                   /\ limits' = WithField(limits, nodeSystem.total[NextField(limits)])
             /\ ticks' # ticks =>
                   (ticks' = ticks + 1 /\ ticks = Len(sent) /\ sent' = sent /\ usage' = Unread)
             /\ (usage' # usage /\ usage' # Unread) =>
                   /\ ticks = Len(sent) + 1 /\ ticks' = ticks /\ sent' = sent
                   /\ usage' = WithField(usage, nodeSystem.used[NextField(usage)])
             /\ sent' # sent =>
                   /\ ticks = Len(sent) + 1 /\ ticks' = ticks
                   /\ Complete(usage)
                   /\ Len(sent') = Len(sent) + 1
                   /\ SubSeq(sent', 1, Len(sent)) = sent
                   /\ sent'[Len(sent')].resource.usage = usage
                   /\ sent'[Len(sent')].resource.limit = limits ]_vars
    /\ [][(~streaming /\ streaming') =>
             (limits' = Unread /\ usage' = Unread /\ ticks' = 0 /\ sent' = <<>>)]_vars

\* C18 witness: a stream has emitted two reports with different usages, the first
\* one mixing two readings of the machine's load, while the node's totals have
\* changed since the stream read them.
C18_Witness ==
    /\ streaming
    /\ Len(sent) >= 2
    /\ sent[1].resource.usage # sent[2].resource.usage
    /\ sent[1].resource.usage \notin NodeUsages
    /\ sent[1].resource.limit = sent[2].resource.limit
    /\ nodeSystem.total # limits

(***************************************************************************)
(* Controller: the instance handlers                                       *)
(***************************************************************************)

\* The handler found the workload and then failed to look the instance up.
InstanceLookupFailedAfterWorkload ==
    /\ cpc = "responded"
    /\ Len(calls) = 2
    /\ calls[1].service = "get_workload" /\ calls[1].ok
    /\ calls[2].service = "get_instance" /\ ~calls[2].ok

\* The handler has called retrieve_and_start_instance.
StartCalled == \E k \in 1..Len(calls) : calls[k].service = "retrieve_and_start_instance"

\* The k-th call of the handler was to `service` and returned Ok.
CallOk(k, service) == k <= Len(calls) /\ calls[k].service = service /\ calls[k].ok

\* C21: when the workload exists but the instance lookup fails, get_instance,
\* delete_instance and patch_instance all answer 404, and none of them answers 5xx.
C21_UnknownInstanceIs404 ==
    (op # None /\ op.handler \in {"get_instance", "delete_instance", "patch_instance"}
       /\ InstanceLookupFailedAfterWorkload)
    => (response # None /\ response.status = 404)

\* C22: patch_instance calls retrieve_and_start_instance only after get_workload,
\* get_instance and delete_instance returned Ok, in that order; when one of them
\* fails the start is never called; when the start fails after the delete succeeded
\* the answer is 500 and the old instance stays deleted.
C22_PatchStartsOnlyAfterDelete ==
    (op # None /\ op.handler = "patch_instance") =>
        /\ (cpc = "start" \/ StartCalled) =>
              /\ CallOk(1, "get_workload")
              /\ CallOk(2, "get_instance")
              /\ CallOk(3, "delete_instance")
              /\ calls[3].arg = InstanceOf(op.workload_id)
        /\ (\E k \in 1..Len(calls) :
                calls[k].service \in {"get_workload", "get_instance", "delete_instance"}
                /\ ~calls[k].ok)
              => (~StartCalled /\ cpc = "responded"
                  /\ ~calls[Len(calls)].ok /\ response # None
                  /\ response.status \in {404, 500})
        /\ (StartCalled /\ ~calls[Len(calls)].ok) =>
              /\ cpc = "responded"
              /\ response = InternalServerError
              /\ CallOk(3, "delete_instance")
              /\ Len(calls) = 4

\* C22 witness: a patch_instance whose delete succeeded and whose start failed.
C22_Witness ==
    /\ op # None /\ op.handler = "patch_instance"
    /\ cpc = "responded"
    /\ Len(calls) = 4
    /\ CallOk(3, "delete_instance")
    /\ calls[4].service = "retrieve_and_start_instance" /\ ~calls[4].ok
    /\ response.status = 500

(***************************************************************************)
(* Node Agent: the retry budget of each startup phase                      *)
(***************************************************************************)

\* C23: each startup phase has its own retry budget: in each retry loop `attempts`
\* counts the retries of that phase alone (it is 0 when the loop of the register phase
\* and the loop of the stream phase begin), a phase panics only when its own retries
\* have used the budget up, and a retry of a later phase repeats no call of an earlier
\* phase: a failed status call is retried on the same client, with no new connect and
\* no new register call.
C23_IndependentRetryBudgets ==
    /\ [](/\ pc = "connect_loop" => attempts = connectCalls - 1
          /\ pc = "connect_sleep" => attempts = connectCalls - 1
          /\ pc = "connect_retry_call" => attempts = connectCalls - 2
          /\ pc = "register_loop" => attempts = registerCalls - 1
          /\ pc = "register_sleep" => attempts = registerCalls - 1
          /\ pc = "register_retry_call" => attempts = registerCalls - 2
          /\ pc = "status_loop" => attempts = statusCalls - 1
          /\ pc = "status_sleep" => attempts = statusCalls - 1
          /\ pc = "status_retry_call" => attempts = statusCalls - 2
          /\ pc = "panic_connect" => ~MayRetry(connectCalls - 1) /\ MayRetry(connectCalls - 2)
          /\ pc = "panic_register" => ~MayRetry(registerCalls - 1) /\ MayRetry(registerCalls - 2)
          /\ pc = "panic_status" => ~MayRetry(statusCalls - 1) /\ MayRetry(statusCalls - 2))
    /\ [][ /\ pc = "register_call" /\ pc' # pc => attempts' = 0
           /\ pc = "status_call" /\ pc' # pc => attempts' = 0
           /\ registerCalls' # registerCalls =>
                 (connectCalls' = connectCalls /\ connection /\ connection')
           /\ statusCalls' # statusCalls =>
                 /\ connectCalls' = connectCalls /\ connection /\ connection'
                 /\ registerCalls' = registerCalls /\ registration /\ registration' ]_vars

\* C23 witness: the connect phase and the register phase each used every retry they
\* have and succeeded on the last one, and the stream phase still retries.
C23_Witness ==
    /\ connection /\ ~MayRetry(connectCalls - 1)
    /\ registration /\ ~MayRetry(registerCalls - 1)
    /\ pc = "status_retry_call"
    /\ ~MayRetry(statusCalls - 1)

\* C24: when every call to the Scheduler returns, create_grpc_client finishes its
\* startup: it ends with a status call that succeeded or in the fatal error state, and
\* every retry of a phase was allowed by that phase's bounded retry guard, so that no
\* phase is retried forever.
C24_StartupTerminates ==
    /\ <>(pc = "done" \/ Fatal)
    /\ [](/\ connectCalls >= 2 => MayRetry(connectCalls - 2)
          /\ registerCalls >= 2 => MayRetry(registerCalls - 2)
          /\ statusCalls >= 2 => MayRetry(statusCalls - 2))
    /\ [](pc = "done" => send_node_resources_to_scheduler)

\* C24 witness: the client task has ended with an established stream after retries
\* in each of the three phases.
C24_Witness ==
    /\ pc = "done"
    /\ send_node_resources_to_scheduler
    /\ connectCalls > 2
    /\ registerCalls > 2
    /\ statusCalls > 2

====
